---------------------------- MODULE Spec2Model ----------------------------
(***************************************************************************)
(* simple-scheduler: the scheduling engine of src/gantt.py (duplicated     *)
(* near-verbatim in src/projectscheduler/gantt.py).                        *)
(*                                                                         *)
(* Dates are integers counted in days from the chart's start date, so the  *)
(* chart start date is day 0 and start_weekday is its Python weekday()     *)
(* (Monday = 0 ... Sunday = 6).  Objects are small integers; a None        *)
(* reference or a None date is the value None.                             *)
(***************************************************************************)
EXTENDS Integers, Sequences, FiniteSets, TLC

\* ------------------------------------------------------------------ bounds
NumTasks == 3
NumResources == 2
MaxDuration == 2
MaxDependencies == 2
MaxLinks == 2
CalendarTasks == 1
MaxWorkdays == 6
ToggleTasks == 4
ToggleLinks == 3
NumCharts == 2
NumProjects == 2
StructTasks == 2
LazyTasks == 3
LazyLinks == 2
LinkCharts == 1
LinkProjects == 2
LinkResources == 2
LinkTasks == 1
ResTasks == 3
ResLinks == 4
QueryTasks == 2
MaxListed == 3
StepTasks == 3
StepDeps == 1
StepRescs == 2
StepLinks == 3
MaxDate == 30

\* ------------------------------------------------------- program constants
ONE_DAY == 1
WEEKEND_DAYS == {5, 6}
None == 0 - 1

TheChart == 1
TheProject == 1

VARIABLES
    start_weekday,      \* weekday() of Chart.start_date
    work_weekends,      \* Chart.work_weekends
    chart_projects,     \* Chart.projects, per chart
    chart_resources,    \* Chart.resources, per chart
    project_chart,      \* Project.chart, per project
    project_tasks,      \* Project.tasks, per project
    resource_chart,     \* Resource.chart, per resource
    resource_tasks,     \* Resource.tasks, per resource
    task_project,       \* Task.project, per task
    task_duration,      \* Task.duration, per task
    task_dependencies,  \* Task.dependencies, per task
    task_resources,     \* Task.resources, per task
    task_start_date,    \* Task._start_date, per task (None = Unscheduled)
    lastOp,             \* the operation that ran last, and on what
    error               \* the exception it raised, if any

graph == <<start_weekday, chart_projects, chart_resources, project_chart,
           project_tasks, resource_chart, resource_tasks, task_project,
           task_duration, task_dependencies, task_resources>>

vars == <<start_weekday, work_weekends, chart_projects, chart_resources,
          project_chart, project_tasks, resource_chart, resource_tasks,
          task_project, task_duration, task_dependencies, task_resources,
          task_start_date, lastOp, error>>

Charts == DOMAIN chart_projects
Projects == DOMAIN project_chart
Tasks == DOMAIN task_duration
Resources == DOMAIN resource_tasks

\* ------------------------------------------------------------- sequences
Range(s) == {s[i] : i \in DOMAIN s}

\* The sequences over S without repetition, of length at most n.
DistinctSeqs(S, n) ==
    UNION {{s \in [1..k -> S] : \A i, j \in 1..k : i /= j => s[i] /= s[j]} :
           k \in 0..n}

\* The elements of the set S of integers, in increasing order.
RECURSIVE Ascending(_)
Ascending(S) ==
    IF S = {} THEN <<>>
    ELSE LET m == CHOOSE x \in S : \A y \in S : x <= y
         IN <<m>> \o Ascending(S \ {m})

\* ------------------------------------------------------------ exceptions
NoError == [kind |-> "none", dependency |-> None, task |-> None]
SchedulingError(dep, t) == [kind |-> "SchedulingError", dependency |-> dep, task |-> t]
AttributeError(t) == [kind |-> "AttributeError", dependency |-> None, task |-> t]
ValueError == [kind |-> "ValueError", dependency |-> None, task |-> None]

\* ------------------------------------------------- mutual registration
\* Chart.add_project and Project.set_chart call each other, and so do
\* Project.add_task and Task.set_project; each returns the collections and
\* back-references it leaves and the exception it raises.
RECURSIVE add_project(_, _, _, _)
RECURSIVE set_chart(_, _, _, _)
RECURSIVE add_task(_, _, _, _)
RECURSIVE set_project(_, _, _, _)

\* add_project without the check that the chart has no project yet.
add_project_unchecked(cp, pc, c, p) ==
    IF p \notin Range(cp[c])
    THEN set_chart([cp EXCEPT ![c] = Append(@, p)], pc, p, c)
    ELSE [chart_projects |-> cp, project_chart |-> pc, error |-> NoError]

\* Chart.add_project(project) on chart c.
add_project(cp, pc, c, p) ==
    IF p \notin Range(cp[c])
    THEN IF Len(cp[c]) >= 1
         THEN [chart_projects |-> cp, project_chart |-> pc, error |-> ValueError]
         ELSE set_chart([cp EXCEPT ![c] = Append(@, p)], pc, p, c)
    ELSE [chart_projects |-> cp, project_chart |-> pc, error |-> NoError]

\* Project.set_chart(chart) on project p; c may be None.
set_chart(cp, pc, p, c) ==
    LET old_chart == pc[p]
        linked == [pc EXCEPT ![p] = c]
    IN IF old_chart /= c /\ c /= None
       THEN add_project(cp, linked, c, p)
       ELSE [chart_projects |-> cp, project_chart |-> linked, error |-> NoError]

\* Project.add_task(task) on project p.
add_task(pt, tp, p, t) ==
    IF t \notin Range(pt[p])
    THEN set_project([pt EXCEPT ![p] = Append(@, t)], tp, t, p)
    ELSE [project_tasks |-> pt, task_project |-> tp]

\* Task.set_project(project) on task t; p may be None.
set_project(pt, tp, t, p) ==
    LET old_proj == tp[t]
        linked == [tp EXCEPT ![t] = p]
    IN IF old_proj /= p /\ p /= None
       THEN add_task(pt, linked, p, t)
       ELSE [project_tasks |-> pt, task_project |-> linked]

\* Chart.add_resource and Resource.set_chart call each other, and so do
\* Resource.add_task and Task.add_resource.
RECURSIVE chart_add_resource(_, _, _, _)
RECURSIVE resource_set_chart(_, _, _, _)
RECURSIVE resource_add_task(_, _, _, _)
RECURSIVE task_add_resource(_, _, _, _)

\* Chart.add_resource(resource) on chart c.
chart_add_resource(cr, rc, c, r) ==
    IF r \notin Range(cr[c])
    THEN resource_set_chart([cr EXCEPT ![c] = Append(@, r)], rc, r, c)
    ELSE [chart_resources |-> cr, resource_chart |-> rc]

\* Resource.set_chart(chart) on resource r; c may be None.
resource_set_chart(cr, rc, r, c) ==
    LET old_chart == rc[r]
        linked == [rc EXCEPT ![r] = c]
    IN IF old_chart /= c /\ c /= None
       THEN chart_add_resource(cr, linked, c, r)
       ELSE [chart_resources |-> cr, resource_chart |-> linked]

\* Resource.add_task appending the task without registering the resource
\* with it.
resource_add_task_one_sided(rt, tr, r, t) ==
    IF t \notin Range(rt[r])
    THEN [resource_tasks |-> [rt EXCEPT ![r] = Append(@, t)], task_resources |-> tr]
    ELSE [resource_tasks |-> rt, task_resources |-> tr]

\* Resource.add_task(task) on resource r.
resource_add_task(rt, tr, r, t) ==
    IF t \notin Range(rt[r])
    THEN task_add_resource([rt EXCEPT ![r] = Append(@, t)], tr, t, r)
    ELSE [resource_tasks |-> rt, task_resources |-> tr]

\* Task.add_resource appending without looking whether the resource is there.
task_add_resource_unchecked(rt, tr, t, r) ==
    resource_add_task(rt, [tr EXCEPT ![t] = Append(@, r)], r, t)

\* Task.add_resource(resource) on task t.
task_add_resource(rt, tr, t, r) ==
    IF r \notin Range(tr[t])
    THEN resource_add_task(rt, [tr EXCEPT ![t] = Append(@, r)], r, t)
    ELSE [resource_tasks |-> rt, task_resources |-> tr]

\* The loop of Task.__init__ over its `resources` argument from position i
\* on: self.add_resource(r) for each element, repeats included.
RECURSIVE init_resources(_, _, _, _, _)
init_resources(rt, tr, t, resources, i) ==
    IF i > Len(resources) THEN [resource_tasks |-> rt, task_resources |-> tr]
    ELSE LET res == task_add_resource(rt, tr, t, resources[i])
         IN init_resources(res.resource_tasks, res.task_resources, t, resources, i + 1)

\* ---------------------------------------------------------------- Calendar
\* date.weekday() of the day `day` days after the chart start date.
weekday(day) == (start_weekday + day) % 7

\* skipped_days with the flag read the wrong way round.
skipped_days_inverted(ww) == IF ww THEN WEEKEND_DAYS ELSE {}

\* Chart.skipped_days under a given work_weekends flag.
skipped_days(ww) == IF ww THEN {} ELSE WEEKEND_DAYS

\* end_date_loop counting the start date as the first day of work.
RECURSIVE end_date_loop_inclusive(_, _, _, _)
end_date_loop_inclusive(ww, end, work_done, dur) ==
    IF work_done < dur - 1
    THEN LET next == end + ONE_DAY
         IN end_date_loop_inclusive(ww, next,
                          IF weekday(next) \notin skipped_days(ww)
                          THEN work_done + 1 ELSE work_done,
                          dur)
    ELSE end

\* end_date_loop testing the weekday of the day it leaves, not the day it
\* advances to.
RECURSIVE end_date_loop_stale_weekday(_, _, _, _)
end_date_loop_stale_weekday(ww, end, work_done, dur) ==
    IF work_done < dur
    THEN end_date_loop_stale_weekday(ww, end + ONE_DAY,
                          IF weekday(end) \notin skipped_days(ww)
                          THEN work_done + 1 ELSE work_done,
                          dur)
    ELSE end

\* The while loop of Task.end_date: advance a day, count it when it is worked.
RECURSIVE end_date_loop(_, _, _, _)
end_date_loop(ww, end, work_done, dur) ==
    IF work_done < dur
    THEN LET next == end + ONE_DAY
         IN end_date_loop(ww, next,
                          IF weekday(next) \notin skipped_days(ww)
                          THEN work_done + 1 ELSE work_done,
                          dur)
    ELSE end

\* Task.end_date of a task whose cached start date is `start`.
end_date_from(ww, start, dur) == end_date_loop(ww, start, 0, dur)

\* Task.is_scheduled under the cache `cache`.
is_scheduled(cache, t) == cache[t] /= None

\* Task.end_date of a Scheduled task t under the cache `cache`.
end_date(ww, cache, t) == end_date_from(ww, cache[t], task_duration[t])

\* ---------------------------------------------------------------- Resource
\* is_free_loop without the is_scheduled test: an Unscheduled task, whose
\* cached date is None, counts like a Scheduled one.
RECURSIVE is_free_loop_counting_unscheduled(_, _, _, _, _)
is_free_loop_counting_unscheduled(ww, cache, r, i, date) ==
    IF i > Len(resource_tasks[r]) THEN TRUE
    ELSE LET task == resource_tasks[r][i]
         IN IF /\ cache[task] <= date
               /\ end_date(ww, cache, task) >= date
            THEN FALSE
            ELSE is_free_loop_counting_unscheduled(ww, cache, r, i + 1, date)

\* is_free_loop with the end date of a task's interval left out of it.
RECURSIVE is_free_loop_exclusive_end(_, _, _, _, _)
is_free_loop_exclusive_end(ww, cache, r, i, date) ==
    IF i > Len(resource_tasks[r]) THEN TRUE
    ELSE LET task == resource_tasks[r][i]
         IN IF /\ is_scheduled(cache, task)
               /\ cache[task] <= date
               /\ end_date(ww, cache, task) > date
            THEN FALSE
            ELSE is_free_loop_exclusive_end(ww, cache, r, i + 1, date)

\* Resource.is_free: the for loop over self.tasks from position i on.
RECURSIVE is_free_loop(_, _, _, _, _)
is_free_loop(ww, cache, r, i, date) ==
    IF i > Len(resource_tasks[r]) THEN TRUE
    ELSE LET task == resource_tasks[r][i]
         IN IF /\ is_scheduled(cache, task)
               /\ cache[task] <= date
               /\ end_date(ww, cache, task) >= date
            THEN FALSE
            ELSE is_free_loop(ww, cache, r, i + 1, date)

is_free(ww, cache, r, date) == is_free_loop(ww, cache, r, 1, date)

\* -------------------------------------------------------------------- Task
\* Task.clear_schedule.
clear_schedule(cache, t) == [cache EXCEPT ![t] = None]

\* dependency_loop with an Unscheduled dependency skipped instead of reported.
RECURSIVE dependency_loop_skipping(_, _, _, _, _)
dependency_loop_skipping(ww, cache, t, i, start) ==
    IF i > Len(task_dependencies[t]) THEN [ok |-> TRUE, start |-> start, dependency |-> None]
    ELSE LET task == task_dependencies[t][i]
         IN IF ~is_scheduled(cache, task)
            THEN dependency_loop_skipping(ww, cache, t, i + 1, start)
            ELSE dependency_loop_skipping(ww, cache, t, i + 1,
                                 IF end_date(ww, cache, task) > start
                                 THEN end_date(ww, cache, task) + ONE_DAY
                                 ELSE start)

\* dependency_loop taking the day after each dependency's end date as the
\* candidate, whatever the candidate was.
RECURSIVE dependency_loop_overwriting(_, _, _, _, _)
dependency_loop_overwriting(ww, cache, t, i, start) ==
    IF i > Len(task_dependencies[t]) THEN [ok |-> TRUE, start |-> start, dependency |-> None]
    ELSE LET task == task_dependencies[t][i]
         IN IF ~is_scheduled(cache, task)
            THEN [ok |-> FALSE, start |-> start, dependency |-> task]
            ELSE dependency_loop_overwriting(ww, cache, t, i + 1,
                                 end_date(ww, cache, task) + ONE_DAY)

\* The dependency loop of Task.schedule from position i on: the candidate
\* start date, or the dependency found Unscheduled.
RECURSIVE dependency_loop(_, _, _, _, _)
dependency_loop(ww, cache, t, i, start) ==
    IF i > Len(task_dependencies[t]) THEN [ok |-> TRUE, start |-> start, dependency |-> None]
    ELSE LET task == task_dependencies[t][i]
         IN IF ~is_scheduled(cache, task)
            THEN [ok |-> FALSE, start |-> start, dependency |-> task]
            ELSE dependency_loop(ww, cache, t, i + 1,
                                 IF end_date(ww, cache, task) > start
                                 THEN end_date(ww, cache, task) + ONE_DAY
                                 ELSE start)

\* resource_pass advancing the date past a busy resource without marking the
\* pass as failed.
RECURSIVE resource_pass_forgetting_advance(_, _, _, _, _, _)
resource_pass_forgetting_advance(ww, cache, t, i, start, date_is_free) ==
    IF i > Len(task_resources[t]) THEN [start |-> start, date_is_free |-> date_is_free]
    ELSE IF ~is_free(ww, cache, task_resources[t][i], start)
         THEN resource_pass_forgetting_advance(ww, cache, t, i + 1, start + ONE_DAY,
                                               date_is_free)
         ELSE resource_pass_forgetting_advance(ww, cache, t, i + 1, start, date_is_free)

\* resource_pass advancing the date by two days past a busy resource.
RECURSIVE resource_pass_two_days(_, _, _, _, _, _)
resource_pass_two_days(ww, cache, t, i, start, date_is_free) ==
    IF i > Len(task_resources[t]) THEN [start |-> start, date_is_free |-> date_is_free]
    ELSE IF ~is_free(ww, cache, task_resources[t][i], start)
         THEN resource_pass_two_days(ww, cache, t, i + 1, start + ONE_DAY + ONE_DAY, FALSE)
         ELSE resource_pass_two_days(ww, cache, t, i + 1, start, date_is_free)

\* One pass of the for loop over self.resources from position i on: a busy
\* resource advances the date and the pass goes on with the next resource.
RECURSIVE resource_pass(_, _, _, _, _, _)
resource_pass(ww, cache, t, i, start, date_is_free) ==
    IF i > Len(task_resources[t]) THEN [start |-> start, date_is_free |-> date_is_free]
    ELSE IF ~is_free(ww, cache, task_resources[t][i], start)
         THEN resource_pass(ww, cache, t, i + 1, start + ONE_DAY, FALSE)
         ELSE resource_pass(ww, cache, t, i + 1, start, date_is_free)

\* deconflict making one pass over the resources and taking its date.
deconflict_single_pass(ww, cache, t, start) ==
    resource_pass(ww, cache, t, 1, start, TRUE).start

\* The while loop of Task.schedule: passes until one finds every resource free.
RECURSIVE deconflict(_, _, _, _)
deconflict(ww, cache, t, start) ==
    LET pass == resource_pass(ww, cache, t, 1, start, TRUE)
    IN IF pass.date_is_free THEN pass.start
       ELSE deconflict(ww, cache, t, pass.start)

\* schedule without the clear_schedule() it begins with: the task's own
\* cached interval is still there when its resources are asked.
schedule_keeping_cache(ww, cache, t) ==
    IF task_project[t] = None \/ project_chart[task_project[t]] = None
    THEN [cache |-> cache, error |-> AttributeError(t)]
    ELSE LET deps == dependency_loop(ww, cache, t, 1, 0)
         IN IF ~deps.ok
            THEN [cache |-> cache, error |-> SchedulingError(deps.dependency, t)]
            ELSE [cache |-> [cache EXCEPT ![t] = deconflict(ww, cache, t, deps.start)],
                  error |-> NoError]

\* schedule putting the cached date back when it raises SchedulingError.
schedule_restoring_on_error(ww, cache, t) ==
    LET cleared == clear_schedule(cache, t)
    IN IF task_project[t] = None \/ project_chart[task_project[t]] = None
       THEN [cache |-> cleared, error |-> AttributeError(t)]
       ELSE LET deps == dependency_loop(ww, cleared, t, 1, 0)
            IN IF ~deps.ok
               THEN [cache |-> cache, error |-> SchedulingError(deps.dependency, t)]
               ELSE [cache |-> [cleared EXCEPT ![t] = deconflict(ww, cleared, t, deps.start)],
                     error |-> NoError]

\* schedule with the day after the chart start date as its first candidate.
schedule_from_next_day(ww, cache, t) ==
    LET cleared == clear_schedule(cache, t)
    IN IF task_project[t] = None \/ project_chart[task_project[t]] = None
       THEN [cache |-> cleared, error |-> AttributeError(t)]
       ELSE LET deps == dependency_loop(ww, cleared, t, 1, ONE_DAY)
            IN IF ~deps.ok
               THEN [cache |-> cleared, error |-> SchedulingError(deps.dependency, t)]
               ELSE [cache |-> [cleared EXCEPT ![t] = deconflict(ww, cleared, t, deps.start)],
                     error |-> NoError]

\* schedule clearing, when it commits, the cached date of every task that
\* depends on t.
schedule_invalidating_dependents(ww, cache, t) ==
    LET cleared == clear_schedule(cache, t)
    IN IF task_project[t] = None \/ project_chart[task_project[t]] = None
       THEN [cache |-> cleared, error |-> AttributeError(t)]
       ELSE LET deps == dependency_loop(ww, cleared, t, 1, 0)
            IN IF ~deps.ok
               THEN [cache |-> cleared, error |-> SchedulingError(deps.dependency, t)]
               ELSE [cache |-> [u \in DOMAIN cleared |->
                                   IF u = t THEN deconflict(ww, cleared, t, deps.start)
                                   ELSE IF t \in Range(task_dependencies[u]) THEN None
                                   ELSE cleared[u]],
                     error |-> NoError]

\* Task.schedule on t: the cache it leaves and the exception it raises.
schedule(ww, cache, t) ==
    LET cleared == clear_schedule(cache, t)
    IN IF task_project[t] = None \/ project_chart[task_project[t]] = None
       THEN [cache |-> cleared, error |-> AttributeError(t)]
       ELSE LET deps == dependency_loop(ww, cleared, t, 1, 0)
            IN IF ~deps.ok
               THEN [cache |-> cleared, error |-> SchedulingError(deps.dependency, t)]
               ELSE [cache |-> [cleared EXCEPT ![t] = deconflict(ww, cleared, t, deps.start)],
                     error |-> NoError]

\* start_date running schedule() on every read, cached date or not.
start_date_always_scheduling(ww, cache, t) ==
    LET res == schedule(ww, cache, t)
    IN [cache |-> res.cache, error |-> res.error, value |-> res.cache[t]]

\* The start_date property of task t: the cached date, or what schedule()
\* leaves when there is none.
start_date(ww, cache, t) ==
    IF cache[t] /= None
    THEN [cache |-> cache, error |-> NoError, value |-> cache[t]]
    ELSE LET res == schedule(ww, cache, t)
         IN [cache |-> res.cache, error |-> res.error, value |-> res.cache[t]]

\* The end_date property of task t: it reads self.start_date, then walks the
\* calendar of self.project.chart.
lazy_end_date(ww, cache, t) ==
    LET rd == start_date(ww, cache, t)
    IN IF rd.error.kind /= "none"
       THEN [cache |-> rd.cache, error |-> rd.error, value |-> None]
       ELSE IF task_project[t] = None \/ project_chart[task_project[t]] = None
            THEN [cache |-> rd.cache, error |-> AttributeError(t), value |-> None]
            ELSE [cache |-> rd.cache, error |-> NoError,
                  value |-> end_date_from(ww, rd.value, task_duration[t])]

\* is_free_reads_loop without the is_scheduled test in front of the reads.
RECURSIVE is_free_reads_loop_unguarded(_, _, _, _, _)
is_free_reads_loop_unguarded(ww, cache, r, i, date) ==
    IF i > Len(resource_tasks[r])
    THEN [cache |-> cache, error |-> NoError, value |-> TRUE]
    ELSE LET task == resource_tasks[r][i]
             rd == start_date(ww, cache, task)
             re == lazy_end_date(ww, rd.cache, task)
         IN IF rd.error.kind /= "none"
            THEN [cache |-> rd.cache, error |-> rd.error, value |-> None]
            ELSE IF ~(rd.value <= date)
                 THEN is_free_reads_loop_unguarded(ww, rd.cache, r, i + 1, date)
                 ELSE IF re.error.kind /= "none"
                      THEN [cache |-> re.cache, error |-> re.error, value |-> None]
                      ELSE IF re.value >= date
                           THEN [cache |-> re.cache, error |-> NoError, value |-> FALSE]
                           ELSE is_free_reads_loop_unguarded(ww, re.cache, r, i + 1, date)

\* Resource.is_free as a call with its property reads: for each task of
\* self.tasks from position i on, task.is_scheduled, then task.start_date,
\* then task.end_date, each evaluated only when the `and` before it is true.
\* Returns the caches the reads leave, the exception raised and the answer.
RECURSIVE is_free_reads_loop(_, _, _, _, _)
is_free_reads_loop(ww, cache, r, i, date) ==
    IF i > Len(resource_tasks[r])
    THEN [cache |-> cache, error |-> NoError, value |-> TRUE]
    ELSE LET task == resource_tasks[r][i]
             rd == start_date(ww, cache, task)
             re == lazy_end_date(ww, rd.cache, task)
         IN IF ~is_scheduled(cache, task)
            THEN is_free_reads_loop(ww, cache, r, i + 1, date)
            ELSE IF rd.error.kind /= "none"
                 THEN [cache |-> rd.cache, error |-> rd.error, value |-> None]
                 ELSE IF ~(rd.value <= date)
                      THEN is_free_reads_loop(ww, rd.cache, r, i + 1, date)
                      ELSE IF re.error.kind /= "none"
                           THEN [cache |-> re.cache, error |-> re.error, value |-> None]
                           ELSE IF re.value >= date
                                THEN [cache |-> re.cache, error |-> NoError, value |-> FALSE]
                                ELSE is_free_reads_loop(ww, re.cache, r, i + 1, date)

is_free_reads(ww, cache, r, date) == is_free_reads_loop(ww, cache, r, 1, date)

\* ----------------------------------------------------------------- Project
\* project_start_date_loop with its comparison turned round.
RECURSIVE project_start_date_loop_latest(_, _, _, _, _)
project_start_date_loop_latest(ww, cache, p, i, start) ==
    IF i > Len(project_tasks[p])
    THEN [cache |-> cache, error |-> NoError, value |-> start]
    ELSE LET rd == start_date(ww, cache, project_tasks[p][i])
         IN IF rd.error.kind /= "none"
            THEN [cache |-> rd.cache, error |-> rd.error, value |-> None]
            ELSE project_start_date_loop_latest(ww, rd.cache, p, i + 1,
                     IF start = None \/ start < rd.value THEN rd.value ELSE start)

\* The for loop of Project.start_date from position i on, `start` being the
\* earliest start date read so far.
RECURSIVE project_start_date_loop(_, _, _, _, _)
project_start_date_loop(ww, cache, p, i, start) ==
    IF i > Len(project_tasks[p])
    THEN [cache |-> cache, error |-> NoError, value |-> start]
    ELSE LET rd == start_date(ww, cache, project_tasks[p][i])
         IN IF rd.error.kind /= "none"
            THEN [cache |-> rd.cache, error |-> rd.error, value |-> None]
            ELSE project_start_date_loop(ww, rd.cache, p, i + 1,
                     IF start = None \/ start > rd.value THEN rd.value ELSE start)

project_start_date(ww, cache, p) == project_start_date_loop(ww, cache, p, 1, None)

\* The for loop of Project.end_date from position i on, `end` being the latest
\* end date read so far.
RECURSIVE project_end_date_loop(_, _, _, _, _)
project_end_date_loop(ww, cache, p, i, end) ==
    IF i > Len(project_tasks[p])
    THEN [cache |-> cache, error |-> NoError, value |-> end]
    ELSE LET rd == lazy_end_date(ww, cache, project_tasks[p][i])
         IN IF rd.error.kind /= "none"
            THEN [cache |-> rd.cache, error |-> rd.error, value |-> None]
            ELSE project_end_date_loop(ww, rd.cache, p, i + 1,
                     IF end = None \/ end < rd.value THEN rd.value ELSE end)

project_end_date(ww, cache, p) == project_end_date_loop(ww, cache, p, 1, None)

\* ------------------------------------------------------------------- Chart
\* The tasks Chart.calculate_schedule visits, in order.
RECURSIVE tasks_of_projects(_)
tasks_of_projects(projs) ==
    IF projs = <<>> THEN <<>>
    ELSE project_tasks[Head(projs)] \o tasks_of_projects(Tail(projs))

\* calculate_loop visiting the tasks from the last added to the first.
RECURSIVE calculate_loop_backwards(_, _, _, _)
calculate_loop_backwards(ww, cache, visit, i) ==
    IF i > Len(visit) THEN [cache |-> cache, error |-> NoError]
    ELSE LET res == schedule(ww, cache, visit[Len(visit) + 1 - i])
         IN IF res.error.kind /= "none" THEN res
            ELSE calculate_loop_backwards(ww, res.cache, visit, i + 1)

\* calculate_loop going on with the next task after an exception and raising
\* the first one at the end.
RECURSIVE calculate_loop_continuing(_, _, _, _)
calculate_loop_continuing(ww, cache, visit, i) ==
    IF i > Len(visit) THEN [cache |-> cache, error |-> NoError]
    ELSE LET res == schedule(ww, cache, visit[i])
             rest == calculate_loop_continuing(ww, res.cache, visit, i + 1)
         IN IF res.error.kind /= "none"
            THEN [cache |-> rest.cache, error |-> res.error]
            ELSE rest

\* The loops of Chart.calculate_schedule from position i of the visit on; the
\* first exception ends them.
RECURSIVE calculate_loop(_, _, _, _)
calculate_loop(ww, cache, visit, i) ==
    IF i > Len(visit) THEN [cache |-> cache, error |-> NoError]
    ELSE LET res == schedule(ww, cache, visit[i])
         IN IF res.error.kind /= "none" THEN res
            ELSE calculate_loop(ww, res.cache, visit, i + 1)

calculate_schedule(ww, cache, c) ==
    calculate_loop(ww, cache, tasks_of_projects(chart_projects[c]), 1)

\* The for loop of Chart.end_date over Chart.tasks from position i of the
\* visit on, `end` being the latest date so far.
RECURSIVE chart_end_date_loop(_, _, _, _, _)
chart_end_date_loop(ww, cache, visit, i, end) ==
    IF i > Len(visit)
    THEN [cache |-> cache, error |-> NoError, value |-> end]
    ELSE LET rd == lazy_end_date(ww, cache, visit[i])
         IN IF rd.error.kind /= "none"
            THEN [cache |-> rd.cache, error |-> rd.error, value |-> None]
            ELSE chart_end_date_loop(ww, rd.cache, visit, i + 1,
                     IF rd.value > end THEN rd.value ELSE end)

\* Chart.end_date: the chart start date is day 0.
chart_end_date(ww, cache, c) ==
    chart_end_date_loop(ww, cache, tasks_of_projects(chart_projects[c]), 1, 0)

Unscheduled == [t \in Tasks |-> None]
AllUnscheduled == \A t \in Tasks : task_start_date[t] = None

\* =================================================================== Spec
\* The state after construction: one chart with its project attached, the
\* resources registered, and the tasks constructed in the order of their
\* numbers.  Tasks 1..n were given the project (so Project.tasks is
\* <<1, ..., n>>); a task beyond n was constructed without a project.
\* Task.__init__ registers the task with each of its resources, so
\* Resource.tasks lists the tasks holding the resource in construction order.
\* maxdeps and maxres bound the dependency and resource links of the whole
\* graph; `loader` keeps the graphs whose dependencies were all constructed
\* before the task that names them (main.py builds no other).  A task without
\* a project can never be Scheduled, so its duration and resources are never
\* read: it gets duration 1 and no resource.
Graph(ids, attached, calendars, rescs, maxdur, maxdeps, maxres, loader) ==
    /\ chart_projects = [c \in {TheChart} |-> <<TheProject>>]
    /\ project_chart = [p \in {TheProject} |-> TheChart]
    /\ \E n \in attached :
         /\ project_tasks = [p \in {TheProject} |-> [i \in 1..n |-> i]]
         /\ task_project = [t \in ids |-> IF t <= n THEN TheProject ELSE None]
    /\ task_dependencies \in [ids -> DistinctSeqs(ids, MaxDependencies)]
    /\ Cardinality({<<t, i>> \in ids \X (1..MaxDependencies) :
                        i <= Len(task_dependencies[t])}) <= maxdeps
    /\ loader => \A t \in ids : \A d \in Range(task_dependencies[t]) : d < t
    /\ task_resources \in [ids -> DistinctSeqs(rescs, Cardinality(rescs))]
    /\ Cardinality({<<t, i>> \in ids \X (1..Cardinality(rescs)) :
                        i <= Len(task_resources[t])}) <= maxres
    /\ \A t \in ids : task_project[t] = None => task_resources[t] = <<>>
    /\ resource_tasks = [r \in rescs |->
            Ascending({t \in ids : r \in Range(task_resources[t])})]
    /\ chart_resources = [c \in {TheChart} |-> Ascending(rescs)]
    /\ resource_chart = [r \in rescs |-> TheChart]
    /\ task_duration \in [ids -> 1..maxdur]
    /\ \A t \in ids : task_project[t] = None => task_duration[t] = 1
    /\ \E cal \in calendars : start_weekday = cal[1] /\ work_weekends = cal[2]
    /\ task_start_date = [t \in ids |-> None]
    /\ error = NoError

\* The graphs of Graph with nothing recorded about the last operation but its
\* name and whether it began with every task Unscheduled.
GraphInit(ids, attached, calendars, rescs, maxdur, maxdeps, maxres, loader) ==
    /\ Graph(ids, attached, calendars, rescs, maxdur, maxdeps, maxres, loader)
    /\ lastOp = [name |-> "init", clean |-> FALSE]

\* A Monday and a Thursday start with weekends skipped, and a chart that
\* works weekends.
Calendars == {<<0, FALSE>>, <<3, FALSE>>, <<3, TRUE>>}

Init ==
    GraphInit(1..NumTasks, {NumTasks - 1, NumTasks}, Calendars, 1..NumResources,
              MaxDuration, MaxLinks, MaxLinks, FALSE)

\* What lastOp records of an operation on task t that returned `value`: always
\* its name and whether it began with every task Unscheduled; and, in the
\* specifications whose initial lastOp has these fields, the task, the start
\* date the task had cached before the operation, and the value returned.
Traced == "task" \in DOMAIN lastOp
Op(name, clean, t, value) ==
    IF Traced
    THEN [name |-> name, clean |-> clean, task |-> t,
          before |-> IF t = None THEN None ELSE task_start_date[t],
          value |-> value]
    ELSE [name |-> name, clean |-> clean]

\* chart.calculate_schedule()
CalculateSchedule ==
    LET res == calculate_schedule(work_weekends, task_start_date, TheChart)
    IN /\ task_start_date' = res.cache
       /\ error' = res.error
       /\ lastOp' = Op("calculate_schedule", AllUnscheduled, None, None)
       /\ UNCHANGED <<graph, work_weekends>>

\* t.schedule()
Schedule(t) ==
    LET res == schedule(work_weekends, task_start_date, t)
    IN /\ task_start_date' = res.cache
       /\ error' = res.error
       /\ lastOp' = Op("schedule", FALSE, t, None)
       /\ UNCHANGED <<graph, work_weekends>>

\* t.clear_schedule()
ClearSchedule(t) ==
    /\ task_start_date' = clear_schedule(task_start_date, t)
    /\ error' = NoError
    /\ lastOp' = Op("clear_schedule", FALSE, t, None)
    /\ UNCHANGED <<graph, work_weekends>>

Next ==
    \/ CalculateSchedule
    \/ \E t \in Tasks : Schedule(t)
    \/ \E t \in Tasks : ClearSchedule(t)

Spec == Init /\ [][Next]_vars

\* --------------------------------------------------------------- SpecLazy
\* Reading dates: the operations of Spec together with the lazy properties
\* Task.start_date and Task.end_date and the aggregates Project.start_date,
\* Project.end_date and Chart.end_date, on graphs of LazyTasks tasks and one
\* resource on a chart that starts on a Thursday and skips weekends.  The
\* project holds all the tasks or none of them.  lastOp records the
\* task, its cached date before the operation and the value returned.
InitLazy ==
    /\ Graph(1..LazyTasks, {0, LazyTasks}, {<<3, FALSE>>}, {1},
             MaxDuration, LazyLinks, LazyLinks, FALSE)
    /\ lastOp = [name |-> "init", clean |-> FALSE, task |-> None,
                 before |-> None, value |-> None]

\* Applies the result of a read: the caches it leaves, the exception it
\* raises and the value it returns.
Read(name, t, res) ==
    /\ task_start_date' = res.cache
    /\ error' = res.error
    /\ lastOp' = Op(name, AllUnscheduled, t, res.value)
    /\ UNCHANGED <<graph, work_weekends>>

\* t.start_date
ReadStartDate(t) ==
    Read("start_date", t, start_date(work_weekends, task_start_date, t))

\* t.end_date
ReadEndDate(t) ==
    Read("end_date", t, lazy_end_date(work_weekends, task_start_date, t))

\* p.start_date
ProjectStartDate(p) ==
    Read("Project.start_date", None, project_start_date(work_weekends, task_start_date, p))

\* p.end_date
ProjectEndDate(p) ==
    Read("Project.end_date", None, project_end_date(work_weekends, task_start_date, p))

\* c.end_date
ChartEndDate(c) ==
    Read("Chart.end_date", None, chart_end_date(work_weekends, task_start_date, c))

NextLazy ==
    \/ Next
    \/ \E t \in Tasks : ReadStartDate(t)
    \/ \E t \in Tasks : ReadEndDate(t)
    \/ \E p \in Projects : ProjectStartDate(p)
    \/ \E p \in Projects : ProjectEndDate(p)
    \/ \E c \in Charts : ChartEndDate(c)

SpecLazy == InitLazy /\ [][NextLazy]_vars

\* ---------------------------------------------------------- SpecResources
\* Resource deconfliction: ResTasks dependency-free tasks that hold up to
\* ResLinks resources between them, on a chart that starts on a Thursday and
\* skips weekends, under the operations of Spec.
InitResources ==
    /\ Graph(1..ResTasks, {ResTasks}, {<<3, FALSE>>}, 1..NumResources,
             MaxDuration, 0, ResLinks, TRUE)
    /\ lastOp = [name |-> "init", clean |-> FALSE, task |-> None,
                 before |-> None, value |-> None]

SpecResources == InitResources /\ [][Next]_vars

\* -------------------------------------------------------------- SpecQuery
\* Resource.is_free as an operation of its own: QueryTasks dependency-free
\* tasks that hold up to ResLinks resources between them, the operations of
\* Spec, and is_free on the dates from the chart start to the day after the
\* last end date.
InitQuery ==
    /\ Graph(1..QueryTasks, {QueryTasks}, {<<3, FALSE>>}, 1..NumResources,
             MaxDuration, 0, ResLinks, TRUE)
    /\ lastOp = [name |-> "init", clean |-> FALSE, task |-> None,
                 before |-> None, value |-> None]

\* The dates Resource.is_free is asked about.
Dates ==
    LET ends == {0} \cup {end_date(work_weekends, task_start_date, t) :
                             t \in {u \in Tasks : task_start_date[u] /= None}}
    IN 0..(1 + (CHOOSE m \in ends : \A e \in ends : e <= m))

\* r.is_free(date)
IsFree(r, date) ==
    LET res == is_free_reads(work_weekends, task_start_date, r, date)
    IN /\ task_start_date' = res.cache
       /\ error' = res.error
       /\ lastOp' = Op("is_free", FALSE, None, res.value)
       /\ UNCHANGED <<graph, work_weekends>>

NextQuery ==
    \/ Next
    \/ \E r \in Resources : \E date \in Dates : IsFree(r, date)

SpecQuery == InitQuery /\ [][NextQuery]_vars

\* -------------------------------------------------------------- SpecSteps
\* Task.schedule, Chart.calculate_schedule and the loop of Task.end_date one
\* loop iteration at a time.  lastOp is the frame of the call in progress:
\* its name, the position pc in the code ("dependencies": the for loop over
\* self.dependencies; "resources": the while loop and its for loop over
\* self.resources; "end_date": the while loop of end_date; "done": returned or
\* raised), the task, its turn in calculate_schedule's visit (0 in a call of
\* its own), the loop index i, the local start_date and date_is_free, and
\* end_date's locals end_date and work_done.  StepTasks tasks on a chart that
\* starts on a Thursday and skips weekends, with up to StepDeps dependency
\* links (cycles included) and up to StepLinks resource links to StepRescs
\* resources.
Frame(name, pc, t, turn, i, start, date_is_free) ==
    [name |-> name, clean |-> FALSE, pc |-> pc, task |-> t, turn |-> turn, i |-> i,
     start |-> start, date_is_free |-> date_is_free,
     end_date |-> None, work_done |-> 0]

Returned(name, t, turn) == Frame(name, "done", t, turn, 0, None, FALSE)

InitSteps ==
    /\ Graph(1..StepTasks, {StepTasks}, {<<3, FALSE>>}, 1..StepRescs,
             MaxDuration, StepDeps, StepLinks, FALSE)
    /\ lastOp = Returned("init", None, 0)

\* The call of schedule() on t up to its dependency loop: clear_schedule(),
\* self.project.chart, start_date = chart.start_date.
enter_schedule(cache, name, t, turn) ==
    LET cleared == clear_schedule(cache, t)
    IN IF task_project[t] = None \/ project_chart[task_project[t]] = None
       THEN [cache |-> cleared, error |-> AttributeError(t),
             frame |-> Returned(name, t, turn)]
       ELSE [cache |-> cleared, error |-> NoError,
             frame |-> Frame(name, "dependencies", t, turn, 1, 0, FALSE)]

\* schedule() returns on task t: the caller's loop, if there is one, goes on
\* to the next task of its visit.
leave_schedule(cache, name, t, turn) ==
    LET visit == tasks_of_projects(chart_projects[TheChart])
    IN IF name = "calculate_schedule" /\ turn < Len(visit)
       THEN enter_schedule(cache, name, visit[turn + 1], turn + 1)
       ELSE [cache |-> cache, error |-> NoError, frame |-> Returned(name, t, turn)]

\* One iteration of the for loop over self.resources that leaves the date
\* where it is when the resource is busy.
resource_iteration_same_day(ww, cache, t, i, start, date_is_free) ==
    IF ~is_free(ww, cache, task_resources[t][i], start)
    THEN [start |-> start, date_is_free |-> FALSE]
    ELSE [start |-> start, date_is_free |-> date_is_free]

\* One iteration of the for loop over self.resources: the locals it leaves.
resource_iteration(ww, cache, t, i, start, date_is_free) ==
    IF ~is_free(ww, cache, task_resources[t][i], start)
    THEN [start |-> start + ONE_DAY, date_is_free |-> FALSE]
    ELSE [start |-> start, date_is_free |-> date_is_free]

Running == lastOp.pc /= "done"

\* t.schedule() is called.
CallSchedule(t) ==
    LET res == enter_schedule(task_start_date, "schedule", t, 0)
    IN /\ ~Running
       /\ task_start_date' = res.cache
       /\ error' = res.error
       /\ lastOp' = res.frame
       /\ UNCHANGED <<graph, work_weekends>>

\* chart.calculate_schedule() is called.
CallCalculateSchedule ==
    LET visit == tasks_of_projects(chart_projects[TheChart])
        res == IF visit = <<>>
               THEN [cache |-> task_start_date, error |-> NoError,
                     frame |-> Returned("calculate_schedule", None, 0)]
               ELSE enter_schedule(task_start_date, "calculate_schedule", visit[1], 1)
    IN /\ ~Running
       /\ task_start_date' = res.cache
       /\ error' = res.error
       /\ lastOp' = res.frame
       /\ UNCHANGED <<graph, work_weekends>>

\* t.end_date is read on a Scheduled task.
CallEndDate(t) ==
    /\ ~Running
    /\ task_start_date[t] /= None
    /\ error' = NoError
    /\ lastOp' = [Frame("end_date", "end_date", t, 0, 0, None, FALSE)
                     EXCEPT !.end_date = task_start_date[t]]
    /\ UNCHANGED <<graph, work_weekends, task_start_date>>

\* One iteration of the dependency loop, or its end.
StepDependencies ==
    LET t == lastOp.task
        i == lastOp.i
        task == task_dependencies[t][i]
    IN /\ lastOp.pc = "dependencies"
       /\ IF i > Len(task_dependencies[t])
          THEN /\ lastOp' = [lastOp EXCEPT !.pc = "resources", !.i = 1,
                                           !.date_is_free = TRUE]
               /\ UNCHANGED error
          ELSE IF ~is_scheduled(task_start_date, task)
               THEN /\ error' = SchedulingError(task, t)
                    /\ lastOp' = Returned(lastOp.name, t, lastOp.turn)
               ELSE /\ lastOp' = [lastOp EXCEPT !.i = i + 1,
                                      !.start = IF end_date(work_weekends, task_start_date, task) > @
                                                THEN end_date(work_weekends, task_start_date, task) + ONE_DAY
                                                ELSE @]
                    /\ UNCHANGED error
       /\ UNCHANGED <<graph, work_weekends, task_start_date>>

\* One iteration of the for loop over self.resources; or, at its end, the
\* test of the while loop: another pass, or the commit and the return.
StepResources ==
    LET t == lastOp.task
        i == lastOp.i
        it == resource_iteration(work_weekends, task_start_date, t, i, lastOp.start,
                                 lastOp.date_is_free)
        committed == [task_start_date EXCEPT ![t] = lastOp.start]
        res == leave_schedule(committed, lastOp.name, t, lastOp.turn)
    IN /\ lastOp.pc = "resources"
       /\ IF i <= Len(task_resources[t])
          THEN /\ it.start <= MaxDate
               /\ lastOp' = [lastOp EXCEPT !.i = i + 1, !.start = it.start,
                                           !.date_is_free = it.date_is_free]
               /\ UNCHANGED <<task_start_date, error>>
          ELSE IF ~lastOp.date_is_free
               THEN /\ lastOp' = [lastOp EXCEPT !.i = 1, !.date_is_free = TRUE]
                    /\ UNCHANGED <<task_start_date, error>>
               ELSE /\ task_start_date' = res.cache
                    /\ error' = res.error
                    /\ lastOp' = res.frame
       /\ UNCHANGED <<graph, work_weekends>>

\* One iteration of the while loop of end_date, or its return.
StepEndDate ==
    /\ lastOp.pc = "end_date"
    /\ IF lastOp.work_done < task_duration[lastOp.task]
       THEN /\ lastOp.end_date < MaxDate
            /\ lastOp' = [lastOp EXCEPT
                   !.end_date = @ + ONE_DAY,
                   !.work_done = IF weekday(lastOp.end_date + ONE_DAY)
                                       \notin skipped_days(work_weekends)
                                 THEN @ + 1 ELSE @]
       ELSE lastOp' = [lastOp EXCEPT !.pc = "done"]
    /\ UNCHANGED <<graph, work_weekends, task_start_date, error>>

\* The call in progress goes on.
Step == StepDependencies \/ StepResources \/ StepEndDate

NextSteps ==
    \/ \E t \in Tasks : CallSchedule(t)
    \/ CallCalculateSchedule
    \/ \E t \in Tasks : CallEndDate(t)
    \/ StepDependencies
    \/ StepResources
    \/ StepEndDate

\* The interpreter keeps running the call it is in.
SpecSteps == InitSteps /\ [][NextSteps]_vars /\ WF_vars(Step)

\* ------------------------------------------------------------- SpecStruct
\* Attaching projects to charts: NumCharts charts and NumProjects projects,
\* all constructed without a chart, then attached through either side of the
\* mutual registration.  Task t was constructed with project
\* ((t - 1) % NumProjects) + 1, so the projects hold tasks.
RECURSIVE constructed_tasks(_)
constructed_tasks(n) ==
    IF n = 0
    THEN [project_tasks |-> [p \in 1..NumProjects |-> <<>>],
          task_project |-> [t \in 1..StructTasks |-> None]]
    ELSE LET before == constructed_tasks(n - 1)
         IN set_project(before.project_tasks, before.task_project, n,
                        ((n - 1) % NumProjects) + 1)

InitStruct ==
    /\ chart_projects = [c \in 1..NumCharts |-> <<>>]
    /\ project_chart = [p \in 1..NumProjects |-> None]
    /\ project_tasks = constructed_tasks(StructTasks).project_tasks
    /\ task_project = constructed_tasks(StructTasks).task_project
    /\ task_duration = [t \in 1..StructTasks |-> 1]
    /\ task_dependencies = [t \in 1..StructTasks |-> <<>>]
    /\ task_resources = [t \in 1..StructTasks |-> <<>>]
    /\ chart_resources = [c \in 1..NumCharts |-> <<>>]
    /\ resource_chart = [r \in {} |-> None]
    /\ resource_tasks = [r \in {} |-> <<>>]
    /\ task_start_date = [t \in 1..StructTasks |-> None]
    /\ start_weekday = 0
    /\ work_weekends = FALSE
    /\ lastOp = [name |-> "init", clean |-> FALSE]
    /\ error = NoError

scheduling == <<start_weekday, work_weekends, task_duration, task_dependencies,
                task_start_date>>

\* c.add_project(p)
AddProject(c, p) ==
    LET res == add_project(chart_projects, project_chart, c, p)
    IN /\ chart_projects' = res.chart_projects
       /\ project_chart' = res.project_chart
       /\ error' = res.error
       /\ lastOp' = [name |-> "add_project", clean |-> FALSE, chart |-> c, project |-> p]
       /\ UNCHANGED <<chart_resources, resource_chart, resource_tasks, task_resources,
                      project_tasks, task_project, scheduling>>

\* p.set_chart(c), c a chart or None
SetChart(p, c) ==
    LET res == set_chart(chart_projects, project_chart, p, c)
    IN /\ chart_projects' = res.chart_projects
       /\ project_chart' = res.project_chart
       /\ error' = res.error
       /\ lastOp' = [name |-> "set_chart", clean |-> FALSE, chart |-> c, project |-> p]
       /\ UNCHANGED <<chart_resources, resource_chart, resource_tasks, task_resources,
                      project_tasks, task_project, scheduling>>

NextStruct ==
    \/ \E c \in Charts, p \in Projects : AddProject(c, p)
    \/ \E p \in Projects, c \in Charts \cup {None} : SetChart(p, c)

SpecStruct == InitStruct /\ [][NextStruct]_vars

\* -------------------------------------------------------------- SpecLinks
\* Every registration call, in any order and with repeats, on LinkCharts
\* charts, LinkProjects projects, LinkResources resources and LinkTasks tasks
\* that were all constructed on their own (no chart, no project, no resource).
InitLinks ==
    /\ chart_projects = [c \in 1..LinkCharts |-> <<>>]
    /\ chart_resources = [c \in 1..LinkCharts |-> <<>>]
    /\ project_chart = [p \in 1..LinkProjects |-> None]
    /\ project_tasks = [p \in 1..LinkProjects |-> <<>>]
    /\ resource_chart = [r \in 1..LinkResources |-> None]
    /\ resource_tasks = [r \in 1..LinkResources |-> <<>>]
    /\ task_project = [t \in 1..LinkTasks |-> None]
    /\ task_resources = [t \in 1..LinkTasks |-> <<>>]
    /\ task_duration = [t \in 1..LinkTasks |-> 1]
    /\ task_dependencies = [t \in 1..LinkTasks |-> <<>>]
    /\ task_start_date = [t \in 1..LinkTasks |-> None]
    /\ start_weekday = 0
    /\ work_weekends = FALSE
    /\ lastOp = [name |-> "init", clean |-> FALSE]
    /\ error = NoError

\* c.add_resource(r)
AddResource(c, r) ==
    LET res == chart_add_resource(chart_resources, resource_chart, c, r)
    IN /\ chart_resources' = res.chart_resources
       /\ resource_chart' = res.resource_chart
       /\ error' = NoError
       /\ lastOp' = [name |-> "add_resource", clean |-> FALSE, chart |-> c, resource |-> r]
       /\ UNCHANGED <<chart_projects, project_chart, project_tasks, task_project,
                      resource_tasks, task_resources, scheduling>>

\* r.set_chart(c), c a chart or None
ResourceSetChart(r, c) ==
    LET res == resource_set_chart(chart_resources, resource_chart, r, c)
    IN /\ chart_resources' = res.chart_resources
       /\ resource_chart' = res.resource_chart
       /\ error' = NoError
       /\ lastOp' = [name |-> "Resource.set_chart", clean |-> FALSE, chart |-> c, resource |-> r]
       /\ UNCHANGED <<chart_projects, project_chart, project_tasks, task_project,
                      resource_tasks, task_resources, scheduling>>

\* p.add_task(t)
AddTask(p, t) ==
    LET res == add_task(project_tasks, task_project, p, t)
    IN /\ project_tasks' = res.project_tasks
       /\ task_project' = res.task_project
       /\ error' = NoError
       /\ lastOp' = [name |-> "add_task", clean |-> FALSE, project |-> p, task |-> t]
       /\ UNCHANGED <<chart_projects, project_chart, chart_resources, resource_chart,
                      resource_tasks, task_resources, scheduling>>

\* t.set_project(p), p a project or None
SetProject(t, p) ==
    LET res == set_project(project_tasks, task_project, t, p)
    IN /\ project_tasks' = res.project_tasks
       /\ task_project' = res.task_project
       /\ error' = NoError
       /\ lastOp' = [name |-> "set_project", clean |-> FALSE, project |-> p, task |-> t]
       /\ UNCHANGED <<chart_projects, project_chart, chart_resources, resource_chart,
                      resource_tasks, task_resources, scheduling>>

\* r.add_task(t)
ResourceAddTask(r, t) ==
    LET res == resource_add_task(resource_tasks, task_resources, r, t)
    IN /\ resource_tasks' = res.resource_tasks
       /\ task_resources' = res.task_resources
       /\ error' = NoError
       /\ lastOp' = [name |-> "Resource.add_task", clean |-> FALSE, resource |-> r, task |-> t]
       /\ UNCHANGED <<chart_projects, project_chart, chart_resources, resource_chart,
                      project_tasks, task_project, scheduling>>

\* t.add_resource(r)
TaskAddResource(t, r) ==
    LET res == task_add_resource(resource_tasks, task_resources, t, r)
    IN /\ resource_tasks' = res.resource_tasks
       /\ task_resources' = res.task_resources
       /\ error' = NoError
       /\ lastOp' = [name |-> "Task.add_resource", clean |-> FALSE, resource |-> r, task |-> t]
       /\ UNCHANGED <<chart_projects, project_chart, chart_resources, resource_chart,
                      project_tasks, task_project, scheduling>>

\* Task(name, duration, resources, project=p) for a task that no list holds
\* yet: the resources loop, then set_project.
NewTask(t, resources, p) ==
    LET links == init_resources(resource_tasks, task_resources, t, resources, 1)
        res == set_project(project_tasks, task_project, t, p)
    IN /\ task_resources[t] = <<>> /\ task_project[t] = None
       /\ \A r \in Resources : t \notin Range(resource_tasks[r])
       /\ \A q \in Projects : t \notin Range(project_tasks[q])
       /\ resource_tasks' = links.resource_tasks
       /\ task_resources' = links.task_resources
       /\ project_tasks' = res.project_tasks
       /\ task_project' = res.task_project
       /\ error' = NoError
       /\ lastOp' = [name |-> "Task", clean |-> FALSE, project |-> p, task |-> t]
       /\ UNCHANGED <<chart_projects, project_chart, chart_resources, resource_chart,
                      scheduling>>

NextLinks ==
    \/ NextStruct
    \/ \E c \in Charts, r \in Resources : AddResource(c, r)
    \/ \E r \in Resources, c \in Charts \cup {None} : ResourceSetChart(r, c)
    \/ \E p \in Projects, t \in Tasks : AddTask(p, t)
    \/ \E t \in Tasks, p \in Projects \cup {None} : SetProject(t, p)
    \/ \E r \in Resources, t \in Tasks : ResourceAddTask(r, t)
    \/ \E t \in Tasks, r \in Resources : TaskAddResource(t, r)
    \/ \E t \in Tasks, resources \in UNION {[1..n -> Resources] : n \in 0..MaxListed},
          p \in Projects \cup {None} : NewTask(t, resources, p)

SpecLinks == InitLinks /\ [][NextLinks]_vars

\* ----------------------------------------------------------- SpecCalendar
\* Calendar arithmetic: CalendarTasks tasks without resources (each may depend
\* on tasks constructed before it), durations up to MaxWorkdays, every weekday
\* as the chart start and both settings of work_weekends.
AllCalendars == (0..6) \X BOOLEAN

InitCalendar ==
    GraphInit(1..CalendarTasks, {CalendarTasks}, AllCalendars, {}, MaxWorkdays,
              CalendarTasks - 1, 0, TRUE)

SpecCalendar == InitCalendar /\ [][Next]_vars

\* ------------------------------------------------------------- SpecToggle
\* The weekend-skip toggle: loader-style graphs of ToggleTasks tasks on one
\* resource, on a chart that starts on a Thursday and skips weekends, scheduled
\* from the all-Unscheduled state.
InitToggle ==
    GraphInit(1..ToggleTasks, {ToggleTasks}, {<<3, FALSE>>}, {1}, MaxDuration,
              ToggleLinks, ToggleLinks, TRUE)

SpecToggle == InitToggle /\ [][CalculateSchedule]_vars

\* ================================================================= claims
\* What the claims speak of, read off the current state.
Start(t) == task_start_date[t]
End(t) == end_date(work_weekends, task_start_date, t)
Scheduled(t) == is_scheduled(task_start_date, t)
ProjectList == tasks_of_projects(chart_projects[TheChart])
ProjectTasks == Range(ProjectList)
ShareResource(t1, t2) == Range(task_resources[t1]) \cap Range(task_resources[t2]) /= {}
CalculateDone == lastOp.name = "calculate_schedule" /\ error.kind = "none"

\* C1: after calculate_schedule() completes without error, every task starts
\* at least one day after the end date of each of its dependencies.
C1_StartsAfterDependencies ==
    CalculateDone =>
        \A t \in ProjectTasks : \A d \in Range(task_dependencies[t]) :
            Scheduled(t) /\ Scheduled(d) /\ Start(t) >= End(d) + ONE_DAY

\* C2: after calculate_schedule() completes, two distinct tasks that share a
\* resource have disjoint inclusive intervals [start_date, end_date].
C2_ResourceIntervalsDisjoint ==
    CalculateDone =>
        \A t1, t2 \in ProjectTasks :
            (t1 /= t2 /\ ShareResource(t1, t2)) =>
                (End(t1) < Start(t2) \/ End(t2) < Start(t1))

\* C3: after calculate_schedule(), for two distinct scheduled tasks that share
\* a resource, the start date of neither lies inside the interval of the other.
C3_StartOutsideOtherInterval ==
    CalculateDone =>
        \A t1, t2 \in ProjectTasks :
            (t1 /= t2 /\ ShareResource(t1, t2) /\ Scheduled(t1) /\ Scheduled(t2)) =>
                ~(Start(t2) <= Start(t1) /\ Start(t1) <= End(t2))

\* C4: a second successful calculate_schedule() right after a first one leaves
\* every task with the start date (and so the end date) it had.
C4_Idempotent ==
    [][(CalculateDone /\ CalculateDone') => task_start_date' = task_start_date]_vars

\* t belongs to a project that is attached to a chart.
Attached(t) == task_project[t] /= None /\ project_chart[task_project[t]] /= None

\* Some dependency of t is Unscheduled when schedule() is called on t, or is t
\* itself (which schedule() clears before it looks at the dependencies).
HasUnscheduledDependency(t) ==
    \E d \in Range(task_dependencies[t]) : d = t \/ ~Scheduled(d)

\* What C5 says a schedule() step on t does.
RaisesSchedulingError(t) ==
    /\ error'.kind = "SchedulingError"
    /\ error'.task = t
    /\ error'.dependency \in Range(task_dependencies[t])
    /\ error'.dependency = t \/ ~Scheduled(error'.dependency)
    /\ task_start_date'[t] = None
    /\ \A d \in Tasks \ {t} : task_start_date'[d] = task_start_date[d]

\* C5 (as stated): schedule() on any task t with an Unscheduled dependency
\* raises SchedulingError naming that dependency and t, schedules no dependency
\* and gives t no start date.
C5_RaisesOnUnscheduledDependency ==
    [][\A t \in Tasks :
          (lastOp'.name = "schedule" /\ HasUnscheduledDependency(t) /\ Schedule(t)) =>
              RaisesSchedulingError(t)]_vars

\* C5 (amended): the same for every task t that belongs to a project attached
\* to a chart.
C5_AttachedRaisesOnUnscheduledDependency ==
    [][\A t \in Tasks :
          (/\ lastOp'.name = "schedule"
           /\ Attached(t) /\ HasUnscheduledDependency(t)
           /\ Schedule(t)) => RaisesSchedulingError(t)]_vars

\* schedule() on a task of the project has just raised SchedulingError for a
\* dependency that was never added to any project.
C5_Witness ==
    /\ lastOp.name = "schedule"
    /\ error.kind = "SchedulingError"
    /\ Attached(error.task)
    /\ task_project[error.dependency] = None
    /\ task_start_date[error.task] = None

\* Position of x in the sequence s (0 when absent).
IndexOf(s, x) ==
    IF x \in Range(s) THEN CHOOSE i \in DOMAIN s : s[i] = x ELSE 0

\* Every dependency of every project task stands strictly earlier than the
\* task in the project's task list.
DependencyOrder ==
    \A t \in ProjectTasks : \A d \in Range(task_dependencies[t]) :
        /\ d \in ProjectTasks
        /\ IndexOf(ProjectList, d) < IndexOf(ProjectList, t)

\* C6: calculate_schedule() called with every task Unscheduled completes
\* without error exactly when the project's task list is in dependency order,
\* and then every task of the project is Scheduled.
C6_CompletesIffDependencyOrder ==
    (lastOp.name = "calculate_schedule" /\ lastOp.clean) =>
        /\ (error.kind = "none") <=> DependencyOrder
        /\ error.kind = "none" => \A t \in ProjectTasks : Scheduled(t)
        /\ error.kind /= "none" => error.kind = "SchedulingError"

\* calculate_schedule() has succeeded from the all-Unscheduled state on a
\* project in which some task has a dependency.
C6_Witness ==
    /\ lastOp.name = "calculate_schedule" /\ lastOp.clean
    /\ error.kind = "none"
    /\ \E t \in ProjectTasks : task_dependencies[t] /= <<>>
    /\ \A t \in ProjectTasks : Scheduled(t)

\* C8: every scheduled task ends strictly later than it starts, whether or
\* not weekends are worked and whatever weekday it starts on.
C8_EndAfterStart ==
    \A t \in Tasks : Scheduled(t) => End(t) > Start(t)

\* A task is scheduled to start on a Saturday or Sunday of a chart that skips
\* weekends, and another state has one on a chart that works them.
C8_Witness ==
    \E t \in Tasks :
        /\ Scheduled(t)
        /\ ~work_weekends
        /\ weekday(Start(t)) \in WEEKEND_DAYS
        /\ End(t) > Start(t)

\* The days after a up to and including b that the chart works.
WorkedDays(a, b) ==
    {d \in (a + 1)..b : weekday(d) \notin skipped_days(work_weekends)}

\* C9: the end date of a scheduled task is the earliest date after its start
\* date with `duration` worked days in (start_date, end_date]; it is never a
\* skipped weekday.
C9_EndIsEarliestWithDurationWorkedDays ==
    \A t \in Tasks : Scheduled(t) =>
        /\ End(t) > Start(t)
        /\ Cardinality(WorkedDays(Start(t), End(t))) = task_duration[t]
        /\ \A e \in (Start(t) + 1)..(End(t) - 1) :
               Cardinality(WorkedDays(Start(t), e)) < task_duration[t]
        /\ weekday(End(t)) \notin skipped_days(work_weekends)

\* A 1-day task that starts on a Friday of a chart that skips weekends ends on
\* the following Monday.
C9_Witness ==
    \E t \in Tasks :
        /\ Scheduled(t)
        /\ ~work_weekends
        /\ task_duration[t] = 1
        /\ weekday(Start(t)) = 4
        /\ End(t) = Start(t) + 3
        /\ weekday(End(t)) = 0

\* The dates calculate_schedule() gives from the all-Unscheduled state when
\* the chart's work_weekends is ww.
CleanRun(ww) == calculate_schedule(ww, Unscheduled, TheChart)
StartUnder(ww, t) == CleanRun(ww).cache[t]
EndUnder(ww, t) == end_date(ww, CleanRun(ww).cache, t)
CleanRunDone == lastOp.name = "calculate_schedule" /\ lastOp.clean /\ error.kind = "none"

C7_SecondProjectRejected ==
    [][\A c \in Charts : \A p2 \in Projects :
          (/\ lastOp'.name = "add_project"
           /\ lastOp'.chart = c /\ lastOp'.project = p2
           /\ Len(chart_projects[c]) >= 1) =>
              /\ error'.kind = (IF p2 \in Range(chart_projects[c]) THEN "none" ELSE "ValueError")
              /\ chart_projects' = chart_projects
              /\ project_chart' = project_chart
              /\ project_tasks' = project_tasks
              /\ task_project' = task_project]_vars

\* add_project has just rejected a second project on a chart whose one
\* project is still attached, points back to the chart and holds a task.
C7_Witness ==
    /\ lastOp.name = "add_project"
    /\ error.kind = "ValueError"
    /\ \E p1 \in Projects :
          /\ p1 /= lastOp.project
          /\ chart_projects[lastOp.chart] = <<p1>>
          /\ project_chart[p1] = lastOp.chart
          /\ project_tasks[p1] /= <<>>

\* The dates from the chart start to the day after the last end date of a
\* Scheduled task.
ProbeDates ==
    LET ends == {0} \cup {End(t) : t \in {u \in Tasks : Scheduled(u)}}
    IN 0..(1 + (CHOOSE m \in ends : \A e \in ends : e <= m))

\* C11: is_free(date) is false exactly when some task in the resource's task
\* list is Scheduled with start_date <= date <= end_date; an Unscheduled task
\* never makes the resource busy.
C11_IsFreeIffNoScheduledTaskCovers ==
    \A r \in Resources : \A date \in ProbeDates :
        is_free(work_weekends, task_start_date, r, date) <=>
            ~\E t \in Range(resource_tasks[r]) :
                Scheduled(t) /\ Start(t) <= date /\ date <= End(t)

\* A resource with a Scheduled and an Unscheduled task is busy on the first
\* and on the last day of the Scheduled task's interval and free the day after.
C11_Witness ==
    \E r \in Resources : \E t, u \in Range(resource_tasks[r]) :
        /\ Scheduled(t) /\ ~Scheduled(u)
        /\ ~is_free(work_weekends, task_start_date, r, Start(t))
        /\ ~is_free(work_weekends, task_start_date, r, End(t))
        /\ is_free(work_weekends, task_start_date, r, End(t) + 1)

\* The step is a read of start_date or end_date of task t.
DateRead(t) ==
    /\ lastOp'.name \in {"start_date", "end_date"}
    /\ lastOp'.task = t

\* A read of an Unscheduled task does to the caches what schedule() on the
\* task does, and the task ends Scheduled or SchedulingError is raised.
ReadRunsSchedule(t) ==
    /\ task_start_date' = schedule(work_weekends, task_start_date, t).cache
    /\ error' = schedule(work_weekends, task_start_date, t).error
    /\ task_start_date'[t] /= None \/ error'.kind = "SchedulingError"
    /\ task_start_date'[t] /= None =>
           lastOp'.value = (IF lastOp'.name = "start_date" THEN task_start_date'[t]
                            ELSE end_date(work_weekends, task_start_date', t))

\* A read of a Scheduled task returns the cached start date, or the end date
\* derived from it, raises nothing and changes no cached date.
ReadReturnsCached(t) ==
    /\ task_start_date' = task_start_date
    /\ error'.kind = "none"
    /\ lastOp'.value = (IF lastOp'.name = "start_date" THEN Start(t) ELSE End(t))

\* The cached date of t changes only in an operation that runs schedule() or
\* clear_schedule() on t: those two, a read of t while it is Unscheduled, and
\* calculate_schedule() and the aggregates, which run schedule() on the tasks
\* of the project.
ChangesOnlyThroughSchedule(t) ==
    task_start_date'[t] /= task_start_date[t] =>
        \/ lastOp'.name \in {"schedule", "clear_schedule"} /\ lastOp'.task = t
        \/ DateRead(t) /\ task_start_date[t] = None
        \/ /\ lastOp'.name \in {"calculate_schedule", "Project.start_date",
                                 "Project.end_date", "Chart.end_date"}
           /\ t \in ProjectTasks

\* C12 (as stated): reading start_date or end_date of any Unscheduled task
\* runs schedule() on it (it ends Scheduled, or SchedulingError is raised);
\* reading them on a Scheduled task returns the cached dates and changes no
\* cache; a cached date changes only through schedule() or clear_schedule()
\* on that task.
C12_LazyMemoizedDates ==
    [][\A t \in Tasks :
          /\ (DateRead(t) /\ ~Scheduled(t)) => ReadRunsSchedule(t)
          /\ (DateRead(t) /\ Scheduled(t)) => ReadReturnsCached(t)
          /\ ChangesOnlyThroughSchedule(t)]_vars

\* C12 (amended): the same, the first part for the Unscheduled tasks that
\* belong to a project attached to a chart.
C12_AttachedLazyMemoizedDates ==
    [][\A t \in Tasks :
          /\ (DateRead(t) /\ ~Scheduled(t) /\ Attached(t)) => ReadRunsSchedule(t)
          /\ (DateRead(t) /\ Scheduled(t)) => ReadReturnsCached(t)
          /\ ChangesOnlyThroughSchedule(t)]_vars

\* end_date has just been read on a Scheduled task one of whose dependencies
\* has since been cleared, and returned the end date of the cached start date.
C12_Witness ==
    /\ lastOp.name = "end_date"
    /\ lastOp.before /= None
    /\ Scheduled(lastOp.task)
    /\ Start(lastOp.task) = lastOp.before
    /\ lastOp.value = End(lastOp.task)
    /\ \E d \in Range(task_dependencies[lastOp.task]) : ~Scheduled(d)

\* The graph of the scenario: a chart starting on a Monday that skips
\* weekends; the project holds X = task 1 (duration 2, resource A, no
\* dependency) and then Y = task 2 (duration 1, resource A, depends on X).
ScenarioXY ==
    /\ start_weekday = 0 /\ ~work_weekends
    /\ ProjectList = <<1, 2>>
    /\ task_duration[1] = 2 /\ task_dependencies[1] = <<>>
    /\ task_duration[2] = 1 /\ task_dependencies[2] = <<1>>
    /\ \E A \in Resources : task_resources[1] = <<A>> /\ task_resources[2] = <<A>>

\* C13: in the scenario, after calculate_schedule(), X starts on day 0 (Mon)
\* and ends on day 2 (Wed), Y starts on day 3 (Thu) and ends on day 4 (Fri).
C13_ScenarioDates ==
    (ScenarioXY /\ CalculateDone) =>
        /\ Start(1) = 0 /\ End(1) = 2
        /\ Start(2) = 3 /\ End(2) = 4

\* calculate_schedule() has completed on the scenario's graph, called with
\* every task Unscheduled.
C13_Witness ==
    /\ ScenarioXY /\ CalculateDone /\ lastOp.clean
    /\ weekday(Start(1)) = 0 /\ weekday(End(1)) = 2
    /\ weekday(Start(2)) = 3 /\ weekday(End(2)) = 4

\* P stands before Q in the project's task list, neither has a dependency,
\* they share a resource, and no third task holds a resource of either.
SharingPair(P, Q) ==
    /\ IndexOf(ProjectList, P) < IndexOf(ProjectList, Q)
    /\ task_dependencies[P] = <<>> /\ task_dependencies[Q] = <<>>
    /\ ShareResource(P, Q)
    /\ \A r \in Range(task_resources[P]) \cup Range(task_resources[Q]) :
           Range(resource_tasks[r]) \subseteq {P, Q}

\* C14: for two dependency-free tasks P then Q that share a resource,
\* scheduled by calculate_schedule() from the all-Unscheduled state, P starts
\* on the chart start date and Q on the day after P's end date.
C14_SecondStartsDayAfterFirstEnds ==
    CleanRunDone =>
        \A P, Q \in ProjectTasks :
            SharingPair(P, Q) => Start(P) = 0 /\ Start(Q) = End(P) + ONE_DAY

\* calculate_schedule() has run from the all-Unscheduled state on a project
\* with such a pair in which P takes two days of work, so that Q's candidate
\* was advanced more than once.
C14_Witness ==
    /\ CleanRunDone
    /\ \E P, Q \in ProjectTasks :
          /\ SharingPair(P, Q)
          /\ task_duration[P] = 2
          /\ Start(Q) = End(P) + ONE_DAY
          /\ Start(Q) >= 3

\* No resource of t has another task that is Scheduled with an interval
\* covering the chart start date (day 0).
FreeAtChartStart(t) ==
    \A r \in Range(task_resources[t]) : \A u \in Range(resource_tasks[r]) \ {t} :
        ~(Scheduled(u) /\ Start(u) <= 0 /\ 0 <= End(u))

\* C15: schedule() gives the chart start date to a task of a project on a
\* chart that has no dependencies and whose resources all have no Scheduled
\* task covering that date; so after calculate_schedule() every
\* dependency-free task that shares no resource with another task starts on
\* the chart start date.
C15_StartsAtChartStart ==
    /\ [][\A t \in Tasks :
             (/\ lastOp'.name = "schedule"
              /\ Attached(t) /\ task_dependencies[t] = <<>> /\ FreeAtChartStart(t)
              /\ Schedule(t)) =>
                 error'.kind = "none" /\ task_start_date'[t] = 0]_vars
    /\ [](CalculateDone =>
            \A t \in ProjectTasks :
                (/\ task_dependencies[t] = <<>>
                 /\ \A u \in Tasks \ {t} : ~ShareResource(t, u)) => Start(t) = 0)

\* calculate_schedule() has completed on a project with two dependency-free
\* tasks that hold one resource each, not the same one, and both start on the
\* chart start date.
C15_Witness ==
    /\ CalculateDone
    /\ \E t1, t2 \in ProjectTasks :
          /\ t1 /= t2
          /\ task_dependencies[t1] = <<>> /\ task_dependencies[t2] = <<>>
          /\ Len(task_resources[t1]) = 1 /\ Len(task_resources[t2]) = 1
          /\ ~ShareResource(t1, t2)
          /\ Start(t1) = 0 /\ Start(t2) = 0

\* No element occurs twice in the sequence s.
NoRepeats(s) == \A i, j \in DOMAIN s : i /= j => s[i] /= s[j]

\* The sequence s' is s with elements appended: what was in s is still
\* there, in the order it had.
Extends(after, s) ==
    /\ Len(after) >= Len(s)
    /\ \A i \in DOMAIN s : after[i] = s[i]

Earliest(S) == CHOOSE x \in S : \A y \in S : x <= y
Latest(S) == CHOOSE x \in S : \A y \in S : y <= x

\* An aggregate has just returned without raising.
AggregateDone(name) == lastOp.name = name /\ error.kind = "none"

\* C17: Project.start_date is the minimum start date and Project.end_date the
\* maximum end date of the project's tasks (None for a project without
\* tasks); Chart.end_date is the maximum of the chart start date and every
\* task's end date; and when one of them returns without error, every task of
\* the project is Scheduled, with the dates of calculate_schedule() if every
\* task was Unscheduled before.
C17_Aggregates ==
    /\ AggregateDone("Project.start_date") =>
           lastOp.value = (IF ProjectTasks = {} THEN None
                           ELSE Earliest({Start(t) : t \in ProjectTasks}))
    /\ AggregateDone("Project.end_date") =>
           lastOp.value = (IF ProjectTasks = {} THEN None
                           ELSE Latest({End(t) : t \in ProjectTasks}))
    /\ AggregateDone("Chart.end_date") =>
           lastOp.value = Latest({0} \cup {End(t) : t \in ProjectTasks})
    /\ \A name \in {"Project.start_date", "Project.end_date", "Chart.end_date"} :
           AggregateDone(name) =>
               /\ \A t \in ProjectTasks : Scheduled(t)
               /\ lastOp.clean =>
                      /\ CleanRun(work_weekends).error.kind = "none"
                      /\ task_start_date = CleanRun(work_weekends).cache

\* Project.end_date has returned on a project whose tasks were all
\* Unscheduled, leaving them Scheduled on different dates, and its value is
\* later than the end date of some task.
C17_Witness ==
    /\ AggregateDone("Project.end_date")
    /\ lastOp.clean
    /\ Len(ProjectList) = LazyTasks
    /\ \A t \in ProjectTasks : Scheduled(t)
    /\ \E t, u \in ProjectTasks : Start(t) < Start(u) /\ End(t) < lastOp.value
    /\ lastOp.value = Latest({End(t) : t \in ProjectTasks})

\* C18: whenever calculate_schedule() completes, from whatever cache state it
\* was called in, every task has the start date (and so the end date) that
\* calculate_schedule() gives on the same graph with every task Unscheduled.
C18_RecomputesFromScratch ==
    (CalculateDone /\ CleanRun(work_weekends).error.kind = "none") =>
        \A t \in ProjectTasks : Start(t) = CleanRun(work_weekends).cache[t]

\* The step is the named operation on task t.
StepOn(name, t) == lastOp'.name = name /\ lastOp'.task = t

\* C19: a task is Unscheduled (no cached start date) or Scheduled (a date from
\* the chart start on); a successful schedule() leaves it Scheduled and
\* clear_schedule() leaves it Unscheduled, whatever it was before; schedule()
\* called again on the same task right after schedule() leaves the cached
\* start date (and the outcome) of the first call.
C19_TaskStateMachine ==
    /\ [](\A t \in Tasks : Start(t) = None \/ Start(t) >= 0)
    /\ [][\A t \in Tasks :
             /\ (StepOn("schedule", t) /\ error'.kind = "none") =>
                    task_start_date'[t] /= None
             /\ StepOn("clear_schedule", t) => task_start_date'[t] = None
             /\ (lastOp.name = "schedule" /\ lastOp.task = t /\ StepOn("schedule", t)) =>
                    /\ task_start_date'[t] = task_start_date[t]
                    /\ error' = error]_vars

\* schedule() has just been called on a Scheduled task that holds a resource
\* together with another Scheduled task, and left it on the date it had.
C19_Witness ==
    /\ lastOp.name = "schedule"
    /\ error.kind = "none"
    /\ lastOp.before /= None
    /\ Start(lastOp.task) = lastOp.before
    /\ \E u \in Tasks \ {lastOp.task} : Scheduled(u) /\ ShareResource(u, lastOp.task)

\* C20: when schedule() on t raises SchedulingError, t is Unscheduled
\* afterwards whatever it was before and no other cached date has changed; t
\* then belongs to a project on a chart, and schedule() on such a task, called
\* when all its dependencies are Scheduled, succeeds.
C20_FailedScheduleClearsOnlyItsTask ==
    /\ []((lastOp.name = "schedule" /\ error.kind = "SchedulingError") =>
             /\ error.task = lastOp.task
             /\ Attached(lastOp.task)
             /\ ~Scheduled(lastOp.task))
    /\ [][\A t \in Tasks :
             StepOn("schedule", t) =>
                /\ error'.kind = "SchedulingError" =>
                       /\ task_start_date'[t] = None
                       /\ \A u \in Tasks \ {t} : task_start_date'[u] = task_start_date[u]
                /\ (Attached(t) /\ \A d \in Range(task_dependencies[t]) : Scheduled(d)) =>
                       error'.kind = "none" /\ task_start_date'[t] /= None]_vars

\* schedule() has just raised SchedulingError on a task that was Scheduled
\* before the call: it is Unscheduled now, and a task that is not the missing
\* dependency is still Scheduled.
C20_Witness ==
    /\ lastOp.name = "schedule"
    /\ error.kind = "SchedulingError"
    /\ lastOp.before /= None
    /\ ~Scheduled(lastOp.task)
    /\ ~Scheduled(error.dependency)
    /\ \E u \in Tasks \ {lastOp.task} : Scheduled(u)

\* C21: when calculate_schedule() raises SchedulingError for a task, every
\* task before it in the project's list is Scheduled, the task itself is
\* Unscheduled, and every task after it (and every task outside the project)
\* has the cached start date it had before the call; the error names a
\* dependency that is Unscheduled.
C21_StopsAtFirstFailure ==
    [][(lastOp'.name = "calculate_schedule" /\ error'.kind = "SchedulingError") =>
          LET failing == error'.task
              turn == IndexOf(ProjectList, failing)
          IN /\ turn > 0
             /\ \A i \in 1..(turn - 1) : task_start_date'[ProjectList[i]] /= None
             /\ task_start_date'[failing] = None
             /\ \A i \in (turn + 1)..Len(ProjectList) :
                    task_start_date'[ProjectList[i]] = task_start_date[ProjectList[i]]
             /\ \A u \in Tasks \ ProjectTasks : task_start_date'[u] = task_start_date[u]
             /\ error'.dependency \in Range(task_dependencies[failing])
             /\ task_start_date'[error'.dependency] = None]_vars

\* calculate_schedule() has just raised SchedulingError for the second task
\* of the list: the first is Scheduled, the second is not, and the third
\* still has a cached date.
C21_Witness ==
    /\ lastOp.name = "calculate_schedule"
    /\ error.kind = "SchedulingError"
    /\ Len(ProjectList) >= 3
    /\ error.task = ProjectList[2]
    /\ Scheduled(ProjectList[1])
    /\ ~Scheduled(ProjectList[2])
    /\ Scheduled(ProjectList[3])

\* The caches schedule() works with on task t: t's own cache cleared.
Without(t) == clear_schedule(task_start_date, t)

\* Every resource of t is free on `date` as far as the other tasks go.
AllFree(t, date) ==
    \A r \in Range(task_resources[t]) : is_free(work_weekends, Without(t), r, date)

\* C22: when schedule() has committed a start date for t, no other Scheduled
\* task that shares a resource with t has an interval containing that date:
\* every resource of t is free on it.
C22_CommittedDateIsFree ==
    (lastOp.name = "schedule" /\ error.kind = "none") =>
        /\ AllFree(lastOp.task, Start(lastOp.task))
        /\ \A u \in Tasks \ {lastOp.task} :
               (ShareResource(u, lastOp.task) /\ Scheduled(u)) =>
                   ~(Start(u) <= Start(lastOp.task) /\ Start(lastOp.task) <= End(u))

\* schedule() has committed a date for a task with two resources after a pass
\* in which the first resource was free on a date and the second was busy on
\* it, so that the date was advanced in the middle of the pass.
C22_Witness ==
    /\ lastOp.name = "schedule" /\ error.kind = "none"
    /\ Len(task_resources[lastOp.task]) = 2
    /\ \E d \in 0..(Start(lastOp.task) - 1) :
          /\ is_free(work_weekends, Without(lastOp.task), task_resources[lastOp.task][1], d)
          /\ ~is_free(work_weekends, Without(lastOp.task), task_resources[lastOp.task][2], d)
    /\ AllFree(lastOp.task, Start(lastOp.task))

\* The loop as specified: when a resource is busy, advance the candidate by
\* one day and check all the resources again from the first.
RECURSIVE specified_deconflict(_, _)
specified_deconflict(t, candidate) ==
    IF AllFree(t, candidate) THEN candidate
    ELSE specified_deconflict(t, candidate + ONE_DAY)

\* C23: from every candidate date the code's loop commits the date the
\* specified loop commits, the earliest date from the candidate on on which
\* every resource of the task is free; and so does schedule(), whose
\* candidate for a dependency-free task is the chart start date.
C23_SameDateAsSpecifiedLoop ==
    /\ \A t \in Tasks : \A candidate \in Dates :
          LET committed == deconflict(work_weekends, Without(t), t, candidate)
          IN /\ committed = specified_deconflict(t, candidate)
             /\ committed >= candidate
             /\ AllFree(t, committed)
             /\ \A d \in candidate..(committed - 1) : ~AllFree(t, d)
    /\ (lastOp.name = "schedule" /\ error.kind = "none") =>
           Start(lastOp.task) = specified_deconflict(lastOp.task, 0)

\* schedule() has committed a date for a task with two resources whose first
\* resource is busy on the chart start date and whose second resource is busy
\* the day after: the code's loop advanced twice in its first pass.
C23_Witness ==
    /\ lastOp.name = "schedule" /\ error.kind = "none"
    /\ Len(task_resources[lastOp.task]) = 2
    /\ ~is_free(work_weekends, Without(lastOp.task), task_resources[lastOp.task][1], 0)
    /\ ~is_free(work_weekends, Without(lastOp.task), task_resources[lastOp.task][2], 1)
    /\ Start(lastOp.task) >= 2
    /\ Start(lastOp.task) = specified_deconflict(lastOp.task, 0)

\* C24: every call of schedule(), of calculate_schedule() and of end_date
\* that has begun returns or raises: the loops of schedule() (over the
\* dependencies, over the resources, and the while loop around it) and the
\* while loop of end_date all come to an end, in graphs with dependency
\* cycles and for tasks with several resources.
C24_Terminates == Running ~> ~Running

\* schedule() has returned with a committed date after its while loop made
\* more than one pass over two resources and advanced the date twice or more,
\* in a graph where a task depends on itself.
C24_Witness ==
    /\ lastOp.name = "schedule" /\ lastOp.pc = "done" /\ error.kind = "none"
    /\ Len(task_resources[lastOp.task]) = 2
    /\ Start(lastOp.task) >= 2
    /\ \E u \in Tasks : u \in Range(task_dependencies[u])

\* C25: a schedule() step on task t, whether it commits a date or raises,
\* changes no cached start date but t's own, and leaves every resource's task
\* list, every task's resource and dependency lists, the projects' task lists
\* and the chart configuration as they were.
C25_ScheduleChangesOnlyItsTask ==
    [][\A t \in Tasks :
          StepOn("schedule", t) =>
              /\ \A u \in Tasks \ {t} : task_start_date'[u] = task_start_date[u]
              /\ resource_tasks' = resource_tasks
              /\ task_resources' = task_resources
              /\ task_dependencies' = task_dependencies
              /\ project_tasks' = project_tasks
              /\ task_project' = task_project
              /\ start_weekday' = start_weekday
              /\ work_weekends' = work_weekends
              /\ UNCHANGED graph]_vars

\* schedule() has just given task t a start date it did not have before the
\* call, while a dependency of t, a task that depends on t and a task that
\* shares a resource with t are Scheduled.
C25_Witness ==
    /\ lastOp.name = "schedule" /\ error.kind = "none"
    /\ Start(lastOp.task) /= lastOp.before
    /\ \E d \in Range(task_dependencies[lastOp.task]) \ {lastOp.task} : Scheduled(d)
    /\ \E u \in Tasks \ {lastOp.task} :
          lastOp.task \in Range(task_dependencies[u]) /\ Scheduled(u)
    /\ \E u \in Tasks \ {lastOp.task} :
          ShareResource(u, lastOp.task) /\ Scheduled(u)

\* C26: in every reachable state a resource is in a task's resource list
\* exactly when the task is in the resource's task list, and neither list
\* holds an entry twice.
C26_LinksAreSymmetric ==
    /\ \A t \in Tasks : \A r \in Resources :
          r \in Range(task_resources[t]) <=> t \in Range(resource_tasks[r])
    /\ \A t \in Tasks : NoRepeats(task_resources[t])
    /\ \A r \in Resources : NoRepeats(resource_tasks[r])

\* A task has just been constructed with a resource list that names every
\* resource and with a project: it holds every resource once and every
\* resource holds it.
C26_Witness ==
    /\ lastOp.name = "Task"
    /\ lastOp.project /= None
    /\ Range(task_resources[lastOp.task]) = Resources
    /\ Len(task_resources[lastOp.task]) = Cardinality(Resources)
    /\ \A r \in Resources : resource_tasks[r] = <<lastOp.task>>

\* C27: in every reachable state a project points to a chart exactly when the
\* chart's project list holds the project; a project that a chart rejected
\* does not point to that chart.
C27_BackReferencesConsistent ==
    \A p \in Projects : \A c \in Charts :
        project_chart[p] = c <=> p \in Range(chart_projects[c])

\* C28: every Scheduled task starts on the chart start date or later in every
\* reachable state; and the candidate of schedule() only moves forward: from
\* every position of the dependency loop and every candidate the loop ends
\* with a candidate that is not earlier, the resource loop commits a date that
\* is not earlier than its candidate, and the date a schedule() step commits
\* is not earlier than the chart start or the end date of any dependency.
C28_NeverBeforeChartStart ==
    /\ [](\A t \in Tasks : Scheduled(t) => Start(t) >= 0)
    /\ [](\A t \in Tasks : \A candidate \in ProbeDates :
             /\ \A i \in 1..(Len(task_dependencies[t]) + 1) :
                    dependency_loop(work_weekends, Without(t), t, i, candidate).start
                        >= candidate
             /\ deconflict(work_weekends, Without(t), t, candidate) >= candidate)
    /\ [][\A t \in Tasks :
             (StepOn("schedule", t) /\ error'.kind = "none") =>
                 /\ task_start_date'[t] >= 0
                 /\ \A d \in Range(task_dependencies[t]) :
                        task_start_date'[t] >= End(d)]_vars

\* schedule() has committed a date for a task with two Scheduled dependencies
\* the first of which ends later than the second: the second dependency left
\* the candidate where the first had put it.
C28_Witness ==
    /\ lastOp.name = "schedule" /\ error.kind = "none"
    /\ Len(task_dependencies[lastOp.task]) = 2
    /\ End(task_dependencies[lastOp.task][1]) > End(task_dependencies[lastOp.task][2])
    /\ Start(lastOp.task) > End(task_dependencies[lastOp.task][1])

\* C29: is_free(date) is a pure query: it raises nothing, schedules no
\* Unscheduled task of the resource, leaves every cached start date as it
\* was, and answers what the Scheduled tasks' intervals say.
C29_IsFreeIsPure ==
    [][lastOp'.name = "is_free" =>
          \A r \in Resources : \A date \in Dates :
              IsFree(r, date) =>
                  /\ task_start_date' = task_start_date
                  /\ error'.kind = "none"
                  /\ lastOp'.value = is_free(work_weekends, task_start_date, r, date)]_vars

\* is_free has just answered true while every resource holds an Unscheduled
\* task next to a Scheduled one: the Unscheduled tasks are Unscheduled still.
C29_Witness ==
    /\ lastOp.name = "is_free"
    /\ lastOp.value = TRUE
    /\ \A r \in Resources :
          /\ \E u \in Range(resource_tasks[r]) : ~Scheduled(u)
          /\ \E u \in Range(resource_tasks[r]) : Scheduled(u)

=============================================================================
